---- MODULE Spec2Model ----
(***************************************************************************)
(* Model of the report assembly engine of app.py: generate_report and the  *)
(* docx helpers it calls (replace_placeholders, the structural inserters,  *)
(* insert_feedback_table), over a document tree of body blocks and         *)
(* per-section header/footer blocks.                                       *)
(*                                                                         *)
(* Text is a sequence of tokens (strings).  A placeholder "{{key}}" and a  *)
(* marker "<<NAME>>" are single tokens; "x in text" is token membership    *)
(* and str.replace is token-wise replacement.                              *)
(***************************************************************************)
EXTENDS Integers, Sequences, FiniteSets, TLC

VARIABLES events, files, reports, pc, event_id, event, doc, before, trace, ncalls

vars == <<events, files, reports, pc, event_id, event, doc, before, trace, ncalls>>

(***************************************************************************)
(* Bounds                                                                  *)
(***************************************************************************)
MaxCalls == 2
MaxFeedback == 11

(***************************************************************************)
(* Program constants                                                       *)
(***************************************************************************)
TEMPLATE_PATH == <<"word_templates", "/", "college_letterhead", ".docx">>
GENERATED_FOLDER == <<"generated_reports">>
FeedbackCap == 10

PSO1_TEXT == <<"PSO1: ...">>
PSO2_TEXT == <<"PSO2: ...">>

(***************************************************************************)
(* Sequence helpers                                                        *)
(***************************************************************************)
Range(s) == {s[i] : i \in DOMAIN s}

Reverse(s) == [i \in 1..Len(s) |-> s[Len(s) + 1 - i]]

RECURSIVE Flatten(_)
Flatten(ss) == IF ss = <<>> THEN <<>> ELSE Head(ss) \o Flatten(Tail(ss))

InsertAt(s, i, x) == SubSeq(s, 1, i - 1) \o <<x>> \o SubSeq(s, i, Len(s))

Take(s, n) == SubSeq(s, 1, IF n < Len(s) THEN n ELSE Len(s))

(***************************************************************************)
(* Scalar column values: NULL or a string (a token sequence)               *)
(***************************************************************************)
Null == [null |-> TRUE, s |-> <<>>]
Str(tokens) == [null |-> FALSE, s |-> tokens]

\* Python truthiness of a nullable string
Truthy(value) == ~value.null /\ value.s # <<>>

\* str(value or "")
StrOrEmpty(value) == IF Truthy(value) THEN value.s ELSE <<>>

(***************************************************************************)
(* Document tree                                                           *)
(***************************************************************************)
TextItem(tok) == [k |-> "t", v |-> tok]
PicItem(path) == [k |-> "pic", v |-> path]
LineBreak == [k |-> "t", v |-> "\n"]
PageBreak == [k |-> "pgbr", v |-> ""]

Run(items, bold) == [items |-> items, bold |-> bold]
TextRun(tokens) == Run([i \in 1..Len(tokens) |-> TextItem(tokens[i])], FALSE)
BoldRun(tokens) == Run([i \in 1..Len(tokens) |-> TextItem(tokens[i])], TRUE)

Para(runs) == [t |-> "p", runs |-> runs, align |-> "", rows |-> <<>>]
Table(rows) == [t |-> "tbl", runs |-> <<>>, align |-> "", rows |-> rows]

\* run.text: the text tokens of a run; pictures and page breaks carry no text
RunText(run) ==
    LET txt == SelectSeq(run.items, LAMBDA it : it.k = "t")
    IN [i \in 1..Len(txt) |-> txt[i].v]

\* "".join(run.text for run in p.runs), also p.text
FullText(p) == Flatten([i \in 1..Len(p.runs) |-> RunText(p.runs[i])])

Contains(text, tok) == \E i \in DOMAIN text : text[i] = tok

\* str.replace(old, new) on token sequences
StrReplace(text, old, new) ==
    Flatten([i \in 1..Len(text) |-> IF text[i] = old THEN new ELSE <<text[i]>>])

\* run.text = "" for every run of p
ClearRuns(runs) == [i \in 1..Len(runs) |-> Run(<<>>, runs[i].bold)]

\* The positions <<i, r, c, k>> of the cell paragraphs of the top-level tables
CellPositions(blocks) ==
    UNION {UNION {UNION {{<<i, r, c, k>> : k \in DOMAIN blocks[i].rows[r][c]}
                         : c \in DOMAIN blocks[i].rows[r]}
                  : r \in DOMAIN blocks[i].rows}
           : i \in {j \in DOMAIN blocks : blocks[j].t = "tbl"}}

ParaPositions(blocks) == {j \in DOMAIN blocks : blocks[j].t = "p"}

CellPara(blocks, pos) == blocks[pos[1]].rows[pos[2]][pos[3]][pos[4]]

(***************************************************************************)
(* Uploaded assets on disk                                                 *)
(***************************************************************************)
AssetNull == [null |-> TRUE, path |-> ""]
Asset(path) == [null |-> FALSE, path |-> path]

\* Files the upload layer stored (_save_file keeps jpg/jpeg/png/gif, and pdf
\* for the letters and the attendance proof); "static/gone.jpg" was deleted.
DiskFiles == {"static/a.jpg", "static/b.png", "static/c.gif", "static/d.PNG",
              "static/scan.pdf"}

PathExists(path) == path \in DiskFiles

\* os.path.splitext(path)[1].lower()
SplitExtLower(path) ==
    CASE path = "static/a.jpg" -> ".jpg"
      [] path = "static/gone.jpg" -> ".jpg"
      [] path = "static/b.png" -> ".png"
      [] path = "static/d.PNG" -> ".png"
      [] path = "static/c.gif" -> ".gif"
      [] path = "static/scan.pdf" -> ".pdf"
      [] OTHER -> ""

\* What python-docx recognises as a picture: the content, not the name
IsPicture(path) == SplitExtLower(path) \in {".jpg", ".jpeg", ".png", ".gif"}

\* Only the null test of the guard
AssetUnusableNullOnly(a) == a.null

\* not path or not os.path.exists(path)
AssetUnusable(a) == a.null \/ a.path = "" \/ ~PathExists(a.path)

(***************************************************************************)
(* replace_placeholders                                                    *)
(***************************************************************************)
RECURSIVE ReplaceLoop(_, _, _, _)
ReplaceLoop(runs, full_text, replacements, k) ==
    IF k > Len(replacements) THEN runs
    ELSE LET placeholder == replacements[k][1]
             value == replacements[k][2]
             runs2 == IF Contains(full_text, placeholder)
                      THEN Append(ClearRuns(runs),
                                  TextRun(StrReplace(full_text, placeholder,
                                                     StrOrEmpty(value))))
                      ELSE runs
         IN ReplaceLoop(runs2, full_text, replacements, k + 1)

replace_in_paragraph(p, replacements) ==
    [p EXCEPT !.runs = ReplaceLoop(p.runs, FullText(p), replacements, 1)]

\* replace_in_paragraph on every paragraph of a block list: the top-level
\* paragraphs and the paragraphs of every cell of every top-level table
ReplaceInBlocks(blocks, replacements) ==
    [i \in 1..Len(blocks) |->
        IF blocks[i].t = "p" THEN replace_in_paragraph(blocks[i], replacements)
        ELSE [blocks[i] EXCEPT !.rows =
                [r \in 1..Len(@) |-> [c \in 1..Len(@[r]) |->
                    [k \in 1..Len(@[r][c]) |->
                        replace_in_paragraph(@[r][c][k], replacements)]]]]]

replace_placeholders(d, replacements) ==
    [body |-> ReplaceInBlocks(d.body, replacements),
     sections |-> [s \in 1..Len(d.sections) |->
        [header |-> ReplaceInBlocks(d.sections[s].header, replacements),
         footer |-> ReplaceInBlocks(d.sections[s].footer, replacements)]]]

(***************************************************************************)
(* Marker search                                                           *)
(***************************************************************************)
Min(S) == CHOOSE x \in S : \A y \in S : x <= y

\* A search that keeps scanning and settles on the last paragraph that matches
LastPara(blocks, marker) ==
    LET hits == {i \in ParaPositions(blocks) : Contains(FullText(blocks[i]), marker)}
    IN IF hits = {} THEN 0 ELSE CHOOSE x \in hits : \A y \in hits : y <= x

\* Index of the first top-level paragraph whose text contains marker, 0 if none
FirstPara(blocks, marker) ==
    LET hits == {i \in ParaPositions(blocks) : Contains(FullText(blocks[i]), marker)}
    IN IF hits = {} THEN 0 ELSE Min(hits)

LexLess(a, b) ==
    \E n \in 1..4 : a[n] < b[n] /\ \A m \in 1..(n - 1) : a[m] = b[m]

\* Position of the first cell paragraph (tables, rows, cells, paragraphs in
\* document order) whose text contains marker, <<>> if none
FirstCell(blocks, marker) ==
    LET hits == {pos \in CellPositions(blocks) :
                    Contains(FullText(CellPara(blocks, pos)), marker)}
    IN IF hits = {} THEN <<>>
       ELSE CHOOSE pos \in hits : \A q \in hits : q = pos \/ LexLess(pos, q)

SetBodyPara(d, i, p) == [d EXCEPT !.body[i] = p]
SetBodyCell(d, pos, p) ==
    [d EXCEPT !.body[pos[1]].rows[pos[2]][pos[3]][pos[4]] = p]
SetHeaderPara(d, s, i, p) == [d EXCEPT !.sections[s].header[i] = p]
SetHeaderCell(d, s, pos, p) ==
    [d EXCEPT !.sections[s].header[pos[1]].rows[pos[2]][pos[3]][pos[4]] = p]

\* Result of a stage: the tree it leaves and whether it raised
Ok(d) == [doc |-> d, raised |-> FALSE]
Raise(d) == [doc |-> d, raised |-> TRUE]

(***************************************************************************)
(* insert_event_details_paragraph                                          *)
(***************************************************************************)
DetailFields(ev) ==
    << <<"Academic Year", ev.academic_year>>,
       <<"Name of Event", ev.title>>,
       <<"Resource Person", ev.resource_person>>,
       <<"Event Type", ev.event_type>>,
       <<"Date", ev.date>>,
       <<"Time", ev.event_time>>,
       <<"Venue", ev.venue>>,
       <<"Department", ev.department>>,
       <<"Designation", ev.resource_designation>>,
       <<"Event Coordinator", ev.event_coordinator>> >>

DetailPara(label, value) ==
    [Para(<<BoldRun(<<label>>), TextRun(<<"\t">>), TextRun(StrOrEmpty(value))>>)
        EXCEPT !.align = "left"]

\* for label, value in order: para = p.insert_paragraph_before(); p sits at
\* index pidx and moves down by one with every insertion
RECURSIVE InsertBeforeLoop(_, _, _, _)
InsertBeforeLoop(body, pidx, order, k) ==
    IF k > Len(order) THEN body
    ELSE InsertBeforeLoop(InsertAt(body, pidx, DetailPara(order[k][1], order[k][2])),
                          pidx + 1, order, k + 1)

insert_event_details_paragraph(d, marker, ev) ==
    LET i == FirstPara(d.body, marker)
    IN IF i = 0 THEN Ok(d)
       ELSE LET cleared == [d.body EXCEPT ![i].runs = <<TextRun(<<>>)>>]
            IN Ok([d EXCEPT !.body =
                      InsertBeforeLoop(cleared, i, Reverse(DetailFields(ev)), 1)])

(***************************************************************************)
(* insert_full_page_image                                                  *)
(***************************************************************************)
\* process_paragraph on a paragraph that holds the marker: the paragraph it
\* leaves; add_picture raises on a file that is not a picture, after the runs
\* were cleared and the new run was added
process_paragraph(p, path) ==
    [p EXCEPT !.runs = Append(ClearRuns(@),
                              Run(IF IsPicture(path) THEN <<PicItem(path)>> ELSE <<>>,
                                  FALSE)),
              !.align = "center"]

Outcome(d, path) == IF IsPicture(path) THEN Ok(d) ELSE Raise(d)

\* for section in doc.sections: header paragraphs, then header tables
RECURSIVE ImageInHeaders(_, _, _, _)
ImageInHeaders(d, marker, path, s) ==
    IF s > Len(d.sections) THEN Ok(d)
    ELSE LET h == d.sections[s].header
             i == FirstPara(h, marker)
             pos == FirstCell(h, marker)
         IN IF i # 0
            THEN Outcome(SetHeaderPara(d, s, i, process_paragraph(h[i], path)), path)
            ELSE IF pos # <<>>
            THEN Outcome(SetHeaderCell(d, s, pos,
                            process_paragraph(CellPara(h, pos), path)), path)
            ELSE ImageInHeaders(d, marker, path, s + 1)

insert_full_page_image(d, marker, asset) ==
    IF AssetUnusable(asset) THEN Ok(d)
    ELSE LET path == asset.path
             i == FirstPara(d.body, marker)
             pos == FirstCell(d.body, marker)
         IN IF i # 0
            THEN Outcome(SetBodyPara(d, i, process_paragraph(d.body[i], path)), path)
            ELSE IF pos # <<>>
            THEN Outcome(SetBodyCell(d, pos,
                            process_paragraph(CellPara(d.body, pos), path)), path)
            ELSE ImageInHeaders(d, marker, path, 1)

(***************************************************************************)
(* insert_event_photos                                                     *)
(***************************************************************************)
\* for img in photos: if os.path.exists(img): picture run, then break run
\* The loop leaving at the first missing file
RECURSIVE PhotoLoopStop(_, _, _)
PhotoLoopStop(runs, photos, k) ==
    IF k > Len(photos) \/ ~PathExists(photos[k]) THEN [runs |-> runs, raised |-> FALSE]
    ELSE IF ~IsPicture(photos[k])
         THEN [runs |-> Append(runs, Run(<<>>, FALSE)), raised |-> TRUE]
    ELSE PhotoLoopStop(runs \o <<Run(<<PicItem(photos[k])>>, FALSE),
                                 Run(<<LineBreak>>, FALSE)>>, photos, k + 1)

RECURSIVE PhotoLoop(_, _, _)
PhotoLoop(runs, photos, k) ==
    IF k > Len(photos) THEN [runs |-> runs, raised |-> FALSE]
    ELSE IF ~PathExists(photos[k]) THEN PhotoLoop(runs, photos, k + 1)
    ELSE IF ~IsPicture(photos[k])
         THEN [runs |-> Append(runs, Run(<<>>, FALSE)), raised |-> TRUE]
    ELSE PhotoLoop(runs \o <<Run(<<PicItem(photos[k])>>, FALSE),
                             Run(<<LineBreak>>, FALSE)>>, photos, k + 1)

insert_event_photos(d, marker, photos) ==
    IF photos = <<>> THEN Ok(d)
    ELSE LET i == FirstPara(d.body, marker)
         IN IF i = 0 THEN Ok(d)
            ELSE LET p == d.body[i]
                     start == <<TextRun(StrReplace(FullText(p), marker, <<>>))>>
                     res == PhotoLoop(start, photos, 1)
                     d2 == SetBodyPara(d, i, [p EXCEPT !.runs = res.runs,
                                                       !.align = "center"])
                 IN IF res.raised THEN Raise(d2) ELSE Ok(d2)

(***************************************************************************)
(* insert_attendance                                                       *)
(***************************************************************************)
AttendanceImageExts == {".jpg", ".jpeg", ".png"}
FallbackText == "Attendance attached as scanned document"

insert_attendance(d, marker, asset) ==
    IF AssetUnusable(asset) THEN Ok(d)
    ELSE LET path == asset.path
             i == FirstPara(d.body, marker)
         IN IF i = 0 THEN Ok(d)
            ELSE LET head == <<Run(<<PageBreak>>, FALSE),
                               BoldRun(<<"Attendance", "\n">>)>>
                     ext == SplitExtLower(path)
                     tail == IF ext \in AttendanceImageExts
                             THEN Run(IF IsPicture(path) THEN <<PicItem(path)>>
                                      ELSE <<>>, FALSE)
                             ELSE TextRun(<<"\n", FallbackText>>)
                     d2 == SetBodyPara(d, i, [d.body[i] EXCEPT
                                                !.runs = Append(head, tail),
                                                !.align = "center"])
                 IN IF ext \in AttendanceImageExts /\ ~IsPicture(path)
                    THEN Raise(d2) ELSE Ok(d2)

(***************************************************************************)
(* insert_feedback_table                                                   *)
(***************************************************************************)
\* cell.text = text; set_cell_font(cell, bold)
Cell(tokens, bold) ==
    <<Para(<<IF bold THEN BoldRun(tokens) ELSE TextRun(tokens)>>)>>

\* fb.get(key, "")
FbGet(fb, key) == IF key \in DOMAIN fb THEN fb[key] ELSE <<>>

FeedbackHeaders == <<"Name", "Rating", "Comment">>

\* The row with the rating and the comment in each other's column
FeedbackRowSwapped(fb) ==
    <<Cell(FbGet(fb, "name"), FALSE), Cell(FbGet(fb, "comment"), FALSE),
      Cell(FbGet(fb, "rating"), FALSE)>>

FeedbackRow(fb) ==
    <<Cell(FbGet(fb, "name"), FALSE), Cell(FbGet(fb, "rating"), FALSE),
      Cell(FbGet(fb, "comment"), FALSE)>>

\* The list taken whole, without the slice
CapFeedbackAll(feedback) == feedback

\* feedback[:10]
CapFeedback(feedback) == Take(feedback, FeedbackCap)

BuildFeedbackTable(feedback) ==
    Table(<<[c \in 1..3 |-> Cell(<<FeedbackHeaders[c]>>, TRUE)]>>
          \o [n \in 1..Len(feedback) |-> FeedbackRow(feedback[n])])

\* doc.add_table appends the table to the end of the body
add_table(body, table) == Append(body, table)

insert_feedback_table(d, marker, feedback) ==
    IF Len(feedback) < 1 THEN Ok(d)
    ELSE LET capped == CapFeedback(feedback)
             i == FirstPara(d.body, marker)
         IN IF i = 0 THEN Ok(d)
            ELSE Ok([d EXCEPT !.body =
                        add_table([d.body EXCEPT ![i].runs = <<>>],
                                  BuildFeedbackTable(capped))])

(***************************************************************************)
(* Output path and the file system                                         *)
(***************************************************************************)
\* The components of a path: the token runs between "/" separators
RECURSIVE SplitPath(_, _)
SplitPath(tokens, cur) ==
    IF tokens = <<>> THEN <<cur>>
    ELSE IF Head(tokens) = "/" THEN <<cur>> \o SplitPath(Tail(tokens), <<>>)
    ELSE SplitPath(Tail(tokens), Append(cur, Head(tokens)))

\* Directories that exist under the working directory (<<>>); the engine
\* creates none besides GENERATED_FOLDER at start-up
Dirs == {<<>>, <<GENERATED_FOLDER>>, << <<"word_templates">> >>, << <<"static">> >>}

\* Walk the directory components of a relative path from the working directory
RECURSIVE WalkDirs(_, _, _)
WalkDirs(comps, k, dir) ==
    IF k >= Len(comps) THEN [ok |-> TRUE, dir |-> dir]
    ELSE IF comps[k] = <<>> \/ comps[k] = <<".">> THEN WalkDirs(comps, k + 1, dir)
    ELSE IF comps[k] = <<"..">>
         THEN IF dir = <<>> THEN [ok |-> FALSE, dir |-> dir]
              ELSE WalkDirs(comps, k + 1, SubSeq(dir, 1, Len(dir) - 1))
    ELSE IF Append(dir, comps[k]) \in Dirs
         THEN WalkDirs(comps, k + 1, Append(dir, comps[k]))
    ELSE [ok |-> FALSE, dir |-> dir]

\* The file a path designates: its directory and name, when the directory exists
ResolveFile(tokens) ==
    LET comps == SplitPath(tokens, <<>>)
        w == WalkDirs(comps, 1, <<>>)
    IN [ok |-> w.ok /\ comps[1] # <<>>, file |-> Append(w.dir, comps[Len(comps)])]

\* event["title"].replace(" ", "_") + ".docx"
OutputFilename(title) == StrReplace(title.s, " ", <<"_">>) \o <<".docx">>

\* os.path.join(a, b): b alone when b is absolute
PathJoin(a, b) == IF b # <<>> /\ Head(b) = "/" THEN b ELSE a \o <<"/">> \o b

OutputPath(title) == PathJoin(GENERATED_FOLDER, OutputFilename(title))

TemplateFile == ResolveFile(TEMPLATE_PATH).file

(***************************************************************************)
(* generate_report: the substitution mapping                               *)
(***************************************************************************)
RECURSIVE Join(_, _)
Join(parts, sep) ==
    IF parts = <<>> THEN <<>>
    ELSE IF Len(parts) = 1 THEN parts[1]
    ELSE parts[1] \o sep \o Join(Tail(parts), sep)

pso_section_text(ev) ==
    Join((IF ev.pso1_selected THEN <<PSO1_TEXT>> ELSE <<>>)
         \o (IF ev.pso2_selected THEN <<PSO2_TEXT>> ELSE <<>>), <<"\n", "\n">>)

po_section_text(ev) ==
    \* "* " stands for the bullet the source prefixes
    Join([n \in 1..Len(ev.selected_pos) |-> <<"* ", ev.selected_pos[n]>>], <<"\n">>)

Replacements(ev) ==
    << <<"{{academic_year}}", ev.academic_year>>,
       <<"{{date}}", ev.date>>,
       <<"{{event_name}}", ev.title>>,
       <<"{{event_type}}", ev.event_type>>,
       <<"{{event_date}}", ev.date>>,
       <<"{{event_time}}", ev.event_time>>,
       <<"{{venue}}", ev.venue>>,
       <<"{{department}}", ev.department>>,
       <<"{{resource_person}}", ev.resource_person>>,
       <<"{{resource_designation}}", ev.resource_designation>>,
       <<"{{event_coordinator}}", ev.event_coordinator>>,
       <<"{{event coordinator}}", ev.event_coordinator>>,
       <<"{{event_description}}", ev.description>>,
       <<"{{event description}}", ev.description>>,
       <<"{{outcome_1}}", ev.outcome_1>>,
       <<"{{outcome_2}}", ev.outcome_2>>,
       <<"{{outcome_3}}", ev.outcome_3>>,
       <<"{{PSO_SECTION}}", Str(pso_section_text(ev))>>,
       <<"{{PO_SECTION}}", Str(po_section_text(ev))>> >>

\* json.loads(column) if column else []
LoadList(column) == IF column.null THEN <<>> ELSE column.list

ListNull == [null |-> TRUE, list |-> <<>>]
List(items) == [null |-> FALSE, list |-> items]

(***************************************************************************)
(* Event records (rows of the events table)                                *)
(***************************************************************************)
TechTalk == <<"Tech", " ", "Talk">>

\* Feedback entry n of the form; entry 1 is A / 5 / Great
FbEntry(n) ==
    IF n = 1 THEN [name |-> <<"A">>, rating |-> <<"5">>, comment |-> <<"Great">>]
    ELSE [name |-> <<"N", ToString(n)>>, rating |-> <<ToString((n % 5) + 1)>>,
          comment |-> <<"C", ToString(n)>>]

FbList(n) == [k \in 1..n |-> FbEntry(k)]

BaseEvent ==
    [title |-> Str(TechTalk), date |-> Str(<<"2024-05-01">>), venue |-> Str(<<"Hall">>),
     department |-> Str(<<"IT">>), description |-> Str(<<"About", " ", "AI">>),
     academic_year |-> Str(<<"2023-24">>), resource_person |-> Str(<<"Dr. X">>),
     resource_designation |-> Null, event_coordinator |-> Str(<<"Prof. Y">>),
     event_time |-> Str(<<>>), event_type |-> Str(<<"Seminar">>),
     permission_letter |-> AssetNull, invitation_letter |-> AssetNull,
     notice_letter |-> AssetNull, appreciation_letter |-> AssetNull,
     event_photos |-> List(<<"static/a.jpg", "static/b.png">>),
     attendance_photo |-> AssetNull,
     outcome_1 |-> Str(<<"O1">>), outcome_2 |-> Null, outcome_3 |-> Str(<<>>),
     feedback_data |-> List(FbList(1)),
     pso1_selected |-> TRUE, pso2_selected |-> FALSE, selected_pos |-> <<"Ethics">>]

LetterAssets == {AssetNull, Asset("static/gone.jpg"), Asset("static/a.jpg"),
                 Asset("static/c.gif"), Asset("static/scan.pdf")}
AttendanceAssets == LetterAssets \cup {Asset("static/d.PNG"), Asset("")}

LetterEvents ==
    {[BaseEvent EXCEPT !.permission_letter = a] : a \in LetterAssets}
    \cup {[BaseEvent EXCEPT !.invitation_letter = a] : a \in LetterAssets}
    \cup {[BaseEvent EXCEPT !.notice_letter = a] : a \in LetterAssets}
    \cup {[BaseEvent EXCEPT !.appreciation_letter = a] : a \in LetterAssets}
    \cup {[BaseEvent EXCEPT !.permission_letter = Asset("static/a.jpg"),
                            !.invitation_letter = Asset("static/b.png"),
                            !.notice_letter = Asset("static/c.gif"),
                            !.appreciation_letter = Asset("static/d.PNG"),
                            !.attendance_photo = Asset("static/a.jpg")]}

AttendanceEvents == {[BaseEvent EXCEPT !.attendance_photo = a] : a \in AttendanceAssets}

PhotoEvents ==
    {[BaseEvent EXCEPT !.event_photos = ph] :
        ph \in {ListNull, List(<<"static/a.jpg">>),
                List(<<"static/b.png", "static/a.jpg">>),
                List(<<"static/a.jpg", "static/gone.jpg", "static/b.png">>),
                List(<<"static/gone.jpg">>)}}

FeedbackEvents ==
    {[BaseEvent EXCEPT !.feedback_data = List(FbList(n))] : n \in 2..MaxFeedback}
    \cup {[BaseEvent EXCEPT !.feedback_data = ListNull],
          [BaseEvent EXCEPT !.feedback_data = List(<<[name |-> <<"B">>]>>)]}

TitleEvents ==
    {[BaseEvent EXCEPT !.title = Str(t)] :
        t \in {<<"Tech", " ", " ", "Talk">>, <<"Tech", "\t", "Talk">>,
               <<"Tech", "_", "Talk">>, <<"AI", "/", "ML">>, <<>>,
               <<"..", "/", "word_templates", "/", "college_letterhead">>}}

ScalarEvents ==
    {[BaseEvent EXCEPT !.academic_year = Null, !.venue = Null],
     [BaseEvent EXCEPT !.description = Str(<<"see", "<<EVENT_PHOTOS>>">>)],
     [BaseEvent EXCEPT !.venue = Str(<<"{{venue}}", "annex">>)],
     [BaseEvent EXCEPT !.pso2_selected = TRUE,
                       !.selected_pos = <<"Ethics", "Communication">>]}

Events1 ==
    {BaseEvent} \cup LetterEvents \cup AttendanceEvents \cup PhotoEvents
    \cup FeedbackEvents \cup TitleEvents \cup ScalarEvents

\* A second row of the table: an event of its own title, or one that shares
\* the title of the first
OtherEvent == [BaseEvent EXCEPT !.title = Str(<<"Orientation">>), !.event_photos = ListNull]
SameTitleEvent ==
    [BaseEvent EXCEPT !.date = Str(<<"2025-01-01">>), !.feedback_data = ListNull]

EventIds == {1, 2}

\* The event ids requests ask for; no row has id 3
RequestIds == {1, 2, 3}

EventTable(e1, e2) == [i \in EventIds |-> IF i = 1 THEN e1 ELSE e2]

\* Events that exercise every stage: the plain record, one with every asset
\* an image, one with a scanned letter, one with more entries than the cap
CoreEvents ==
    {BaseEvent,
     [BaseEvent EXCEPT !.permission_letter = Asset("static/a.jpg"),
                       !.invitation_letter = Asset("static/b.png"),
                       !.notice_letter = Asset("static/c.gif"),
                       !.appreciation_letter = Asset("static/d.PNG"),
                       !.attendance_photo = Asset("static/a.jpg")],
     [BaseEvent EXCEPT !.notice_letter = Asset("static/scan.pdf")],
     [BaseEvent EXCEPT !.feedback_data = List(FbList(MaxFeedback))]}

(***************************************************************************)
(* Templates                                                               *)
(***************************************************************************)
Markers == <<"<<EVENT_DETAILS>>", "<<IMAGE_PERMISSION>>", "<<IMAGE_INVITATION>>",
             "<<IMAGE_NOTICE>>", "<<IMAGE_APPRECIATION>>", "<<EVENT_PHOTOS>>",
             "<<ATTENDANCE_FILE>>", "<<FEEDBACK_TABLE>>">>

Locations == {"body", "body2", "table", "header", "htable", "footer"}

P(tokens) == Para(<<TextRun(tokens)>>)

\* One paragraph per marker of M, in vocabulary order; lead is the text
\* the author wrote in front of the marker
MarkerParas(M, lead) ==
    LET ms == SelectSeq(Markers, LAMBDA m : m \in M)
    IN [n \in 1..Len(ms) |-> P(lead \o <<ms[n]>>)]

\* A table with one row per marker of M: a label cell and the marker cell
MarkerTable(M, lead) ==
    LET ms == SelectSeq(Markers, LAMBDA m : m \in M)
    IN IF ms = <<>> THEN <<>>
       ELSE <<Table([n \in 1..Len(ms) |->
                        << <<P(<<"slot">>)>>, <<P(lead \o <<ms[n]>>)>> >>])>>

\* A template holding the markers of M at every location of L, and
\* placeholders (keys = "none", "single" or "multi")
Tmpl(L, M, keys) ==
    [body |->
        (IF keys = "none" THEN <<P(<<"Report">>)>>
         ELSE <<P(<<"Report", "{{event_name}}">>)>>)
        \o (IF keys = "multi"
            THEN <<P(<<"{{event_description}}">>),
                   Para(<<TextRun(<<"{{date}}", "at">>),
                          TextRun(<<"{{venue}}", "{{event_time}}", "{{date}}">>)>>),
                   Table(<< << <<P(<<"{{department}}">>)>>,
                               <<P(<<"{{academic_year}}", "{{outcome_2}}">>)>> >> >>)>>
            ELSE <<>>)
        \o (IF "table" \in L THEN MarkerTable(M, <<"cell">>) ELSE <<>>)
        \o (IF "body" \in L THEN MarkerParas(M, <<>>) ELSE <<>>)
        \o <<P(<<"Prepared by", "{{event_coordinator}}">>)>>
        \o (IF "body2" \in L THEN MarkerParas(M, <<"again">>) ELSE <<>>)
        \o <<P(<<"Signature">>)>>,
     sections |-> <<
        [header |->
            (IF keys = "none" THEN <<>> ELSE <<P(<<"{{department}}">>)>>)
            \o (IF "htable" \in L THEN MarkerTable(M, <<"hcell">>) ELSE <<>>)
            \o (IF "header" \in L THEN MarkerParas(M, <<"head">>) ELSE <<>>),
         footer |->
            (IF keys = "none" THEN <<>>
             ELSE IF keys = "single" THEN <<P(<<"{{PO_SECTION}}">>)>>
             ELSE <<P(<<"{{academic_year}}", "{{PO_SECTION}}">>)>>)
            \o (IF "footer" \in L THEN MarkerParas(M, <<"foot">>) ELSE <<>>)] >>]

Templates ==
    {Tmpl(L, Range(Markers), "multi") : L \in {K \in SUBSET Locations : Cardinality(K) <= 2}}
    \cup {Tmpl({"body"}, {m}, "single") : m \in {"<<EVENT_DETAILS>>", "<<FEEDBACK_TABLE>>"}}
    \cup {Tmpl({}, {}, "none")}

\* Templates with the markers in the body, twice in the body, in a table
\* only, and in the header and footer only
CoreTemplates ==
    {Tmpl(L, Range(Markers), "multi") :
        L \in {{"body"}, {"body", "body2"}, {"table"}, {"header", "footer"}}}

\* What is on disk and in the events table when the server starts: a template
\* (or none) and two event rows
Worlds ==
    {[template |-> t, table |-> EventTable(e, OtherEvent)] :
        t \in Templates, e \in CoreEvents}
    \cup {[template |-> t, table |-> EventTable(e, OtherEvent)] :
            t \in CoreTemplates, e \in Events1}
    \cup {[template |-> t, table |-> EventTable(BaseEvent, SameTitleEvent)] :
            t \in CoreTemplates}
    \cup {[template |-> Tmpl({"body"}, Range(Markers), "multi"),
           table |-> EventTable(e, SameTitleEvent)] : e \in TitleEvents}

EmptyDoc == [body |-> <<>>, sections |-> <<>>]

(***************************************************************************)
(* generate_report                                                         *)
(***************************************************************************)
\* Local state of a request that has not fetched its event yet
NoEvent ==
    [BaseEvent EXCEPT !.title = Null, !.event_photos = ListNull,
                      !.feedback_data = ListNull]

\* The pipeline with the gallery statement moved in front of the four images
PipelineSwapped ==
    <<"idle", "fetched", "loaded", "substituted", "details", "gallery", "permission",
      "invitation", "notice", "appreciation", "attendance", "feedback",
      "serialized", "recorded">>

\* The order with the INSERT INTO reports ahead of doc.save
PipelineRecordFirst ==
    <<"idle", "fetched", "loaded", "substituted", "details", "permission",
      "invitation", "notice", "appreciation", "gallery", "attendance", "feedback",
      "recorded", "serialized">>

\* The statements of generate_report in program order, named by the position
\* the call is in once the statement has run
Pipeline ==
    <<"idle", "fetched", "loaded", "substituted", "details", "permission",
      "invitation", "notice", "appreciation", "gallery", "attendance", "feedback",
      "serialized", "recorded">>

\* The position from which the statement named stage runs
Prev(stage) == Pipeline[(CHOOSE i \in DOMAIN Pipeline : Pipeline[i] = stage) - 1]

Init ==
    /\ \/ \E w \in Worlds : events = w.table /\ files = TemplateFile :> w.template
       \/ events = EventTable(BaseEvent, OtherEvent) /\ files = <<>>
    /\ reports = <<>>
    /\ pc = "idle"
    /\ event_id = 0
    /\ event = NoEvent
    /\ doc = EmptyDoc
    /\ before = EmptyDoc
    /\ trace = <<>>
    /\ ncalls = 0

\* if not event: flash, redirect
NotFound ==
    /\ pc = "idle"
    /\ ncalls < MaxCalls
    /\ \E id \in RequestIds \ DOMAIN events : event_id' = id
    /\ ncalls' = ncalls + 1
    /\ trace' = <<>>
    /\ UNCHANGED <<events, files, reports, pc, event, doc, before>>

\* event = SELECT * FROM events WHERE id = ?
Fetch ==
    /\ pc = Prev("fetched")
    /\ ncalls < MaxCalls
    /\ \E id \in RequestIds \cap DOMAIN events :
        /\ event_id' = id
        /\ event' = events[id]
    /\ ncalls' = ncalls + 1
    /\ pc' = "fetched"
    /\ trace' = <<>>
    /\ doc' = EmptyDoc
    /\ before' = EmptyDoc
    /\ UNCHANGED <<events, files, reports>>

\* A load that goes on with an empty document when the template is missing
LoadTemplateLenient ==
    /\ pc = Prev("loaded")
    /\ trace' = Append(trace, "loaded")
    /\ doc' = IF TemplateFile \in DOMAIN files THEN files[TemplateFile] ELSE EmptyDoc
    /\ pc' = "loaded"
    /\ UNCHANGED <<events, files, reports, event_id, event, before, ncalls>>

\* doc = Document(TEMPLATE_PATH)
LoadTemplate ==
    /\ pc = Prev("loaded")
    /\ trace' = Append(trace, "loaded")
    /\ IF TemplateFile \in DOMAIN files
       THEN doc' = files[TemplateFile] /\ pc' = "loaded"
       ELSE doc' = doc /\ pc' = "raised"
    /\ UNCHANGED <<events, files, reports, event_id, event, before, ncalls>>

\* One pipeline statement has run on doc and left res
Advance(stage, res) ==
    /\ before' = doc
    /\ doc' = res.doc
    /\ pc' = IF res.raised THEN "raised" ELSE stage
    /\ trace' = Append(trace, stage)
    /\ UNCHANGED <<events, files, reports, event_id, event, ncalls>>

Substitute ==
    /\ pc = Prev("substituted")
    /\ Advance("substituted",
               Ok(replace_placeholders(doc, Replacements(event))))

Details ==
    /\ pc = Prev("details")
    /\ Advance("details",
               insert_event_details_paragraph(doc, "<<EVENT_DETAILS>>", event))

Permission ==
    /\ pc = Prev("permission")
    /\ Advance("permission",
               insert_full_page_image(doc, "<<IMAGE_PERMISSION>>", event.permission_letter))

Invitation ==
    /\ pc = Prev("invitation")
    /\ Advance("invitation",
               insert_full_page_image(doc, "<<IMAGE_INVITATION>>", event.invitation_letter))

Notice ==
    /\ pc = Prev("notice")
    /\ Advance("notice",
               insert_full_page_image(doc, "<<IMAGE_NOTICE>>", event.notice_letter))

Appreciation ==
    /\ pc = Prev("appreciation")
    /\ Advance("appreciation",
               insert_full_page_image(doc, "<<IMAGE_APPRECIATION>>", event.appreciation_letter))

Gallery ==
    /\ pc = Prev("gallery")
    /\ Advance("gallery",
               insert_event_photos(doc, "<<EVENT_PHOTOS>>", LoadList(event.event_photos)))

Attendance ==
    /\ pc = Prev("attendance")
    /\ Advance("attendance",
               insert_attendance(doc, "<<ATTENDANCE_FILE>>", event.attendance_photo))

Feedback ==
    /\ pc = Prev("feedback")
    /\ Advance("feedback",
               insert_feedback_table(doc, "<<FEEDBACK_TABLE>>", LoadList(event.feedback_data)))

\* filename = ...; path = os.path.join(...); doc.save(path)
Serialize ==
    /\ pc = Prev("serialized")
    /\ trace' = Append(trace, "serialized")
    /\ LET target == ResolveFile(OutputPath(event.title))
       IN IF ~event.title.null /\ target.ok
          THEN /\ files' = [f \in DOMAIN files \cup {target.file} |->
                              IF f = target.file THEN doc ELSE files[f]]
               /\ pc' = "serialized"
          ELSE /\ files' = files
               /\ pc' = "raised"
    /\ UNCHANGED <<events, reports, event_id, event, doc, before, ncalls>>

\* INSERT INTO reports (event_id, file_path, status)
Record ==
    /\ pc = Prev("recorded")
    /\ reports' = Append(reports, [event_id |-> event_id,
                                   file_path |-> OutputPath(event.title),
                                   status |-> "submitted"])
    /\ pc' = "recorded"
    /\ UNCHANGED <<events, files, event_id, event, doc, before, trace, ncalls>>

\* return send_file(path): the call is over, its tree is discarded
Respond ==
    /\ pc = "recorded"
    /\ pc' = "idle"
    /\ doc' = EmptyDoc
    /\ before' = EmptyDoc
    /\ UNCHANGED <<events, files, reports, event_id, event, trace, ncalls>>

\* An exception leaves generate_report: the call is over, nothing is saved
Abort ==
    /\ pc = "raised"
    /\ pc' = "idle"
    /\ doc' = EmptyDoc
    /\ before' = EmptyDoc
    /\ UNCHANGED <<events, files, reports, event_id, event, trace, ncalls>>

Next ==
    \/ NotFound
    \/ Fetch
    \/ LoadTemplate
    \/ Substitute
    \/ Details
    \/ Permission
    \/ Invitation
    \/ Notice
    \/ Appreciation
    \/ Gallery
    \/ Attendance
    \/ Feedback
    \/ Serialize
    \/ Record
    \/ Respond
    \/ Abort

Spec == Init /\ [][Next]_vars

(***************************************************************************)
(* Vocabulary of the properties                                            *)
(***************************************************************************)
\* Where a paragraph sits: <<zone, s, kind, i, r, c, k>>.  Zone 1 is a body
\* paragraph, 2 a body table cell, 3 the header of section s, 4 its footer;
\* kind 0 is a top-level paragraph i, kind 1 paragraph k of cell c of row r
\* of table i.  The documented search order is zones 1 to 3 in
\* lexicographic order of the tuple.
BlockLocs(blocks, zp, zc, s) ==
    {<<zp, s, 0, i, 0, 0, 0>> : i \in ParaPositions(blocks)}
    \cup {<<zc, s, 1, pos[1], pos[2], pos[3], pos[4]>> : pos \in CellPositions(blocks)}

Locs(d) ==
    BlockLocs(d.body, 1, 2, 0)
    \cup UNION {BlockLocs(d.sections[s].header, 3, 3, s)
                \cup BlockLocs(d.sections[s].footer, 4, 4, s) : s \in DOMAIN d.sections}

BlocksAt(d, loc) ==
    IF loc[1] <= 2 THEN d.body
    ELSE IF loc[1] = 3 THEN d.sections[loc[2]].header
    ELSE d.sections[loc[2]].footer

ParaAt(d, loc) ==
    IF loc[3] = 0 THEN BlocksAt(d, loc)[loc[4]]
    ELSE BlocksAt(d, loc)[loc[4]].rows[loc[5]][loc[6]][loc[7]]

Before(a, b) == \E n \in 1..7 : a[n] < b[n] /\ \A m \in 1..(n - 1) : a[m] = b[m]

\* The places of the tree whose paragraph text holds marker
Occurrences(d, marker) == {loc \in Locs(d) : Contains(FullText(ParaAt(d, loc)), marker)}

\* The occurrences the documented search order visits (never footers)
Searched(d, marker) == {loc \in Occurrences(d, marker) : loc[1] <= 3}

FirstOccurrence(d, marker) ==
    CHOOSE loc \in Searched(d, marker) :
        \A o \in Searched(d, marker) : o = loc \/ Before(loc, o)

LastStage == IF trace = <<>> THEN "none" ELSE trace[Len(trace)]

\* The statement named stage has just run (and returned or raised)
JustRan(stage) == LastStage = stage /\ pc \in {stage, "raised"}

HasPicture(p) == \E n \in DOMAIN p.runs : \E m \in DOMAIN p.runs[n].items :
                    p.runs[n].items[m].k = "pic"

(***************************************************************************)
(* C1                                                                      *)
(***************************************************************************)
\* C1: once the template has loaded, no stage raises: a call is in the
\* raised position only when loading the template was the statement that failed.
C1_NoStageRaises == pc = "raised" => trace = <<"loaded">>

(***************************************************************************)
(* C2                                                                      *)
(***************************************************************************)
C2_Value(v) == IF v.null THEN <<>> ELSE v.s

\* Every token of text that is a key of the mapping replaced by its value
C2_Expected(text, replacements) ==
    Flatten([n \in 1..Len(text) |->
        IF \E k \in DOMAIN replacements : replacements[k][1] = text[n]
        THEN C2_Value(replacements[CHOOSE k \in DOMAIN replacements :
                                        replacements[k][1] = text[n]][2])
        ELSE <<text[n]>>])

\* C2: after replace_placeholders has run once, every paragraph of the tree
\* (body, table cells, headers, footers) reads as it did before with every
\* {{key}} token of the mapping replaced by the key's value ("" for null).
C2_SubstitutionComplete ==
    JustRan("substituted") =>
        /\ Locs(doc) = Locs(before)
        /\ \A loc \in Locs(before) :
              FullText(ParaAt(doc, loc))
                = C2_Expected(FullText(ParaAt(before, loc)), Replacements(event))

(***************************************************************************)
(* C3                                                                      *)
(***************************************************************************)
C3_Labels ==
    <<"Academic Year", "Name of Event", "Resource Person", "Event Type", "Date",
      "Time", "Venue", "Department", "Designation", "Event Coordinator">>

C3_Values(ev) ==
    <<ev.academic_year, ev.title, ev.resource_person, ev.event_type, ev.date,
      ev.event_time, ev.venue, ev.department, ev.resource_designation,
      ev.event_coordinator>>

\* C3: when the details marker paragraph is found at body index i, the ten
\* paragraphs at i .. i+9 read label, tab, value in the fixed order Academic
\* Year .. Event Coordinator, and the cleared marker paragraph follows at i+10.
C3_DetailsInOrder ==
    (JustRan("details")
        /\ \E loc \in Occurrences(before, "<<EVENT_DETAILS>>") : loc[1] = 1) =>
        LET i == FirstOccurrence(before, "<<EVENT_DETAILS>>")[4]
        IN /\ Len(doc.body) = Len(before.body) + 10
           /\ \A n \in 1..10 :
                FullText(doc.body[i + n - 1])
                  = <<C3_Labels[n], "\t">> \o C2_Value(C3_Values(event)[n])
           /\ FullText(doc.body[i + 10]) = <<>>

(***************************************************************************)
(* C4                                                                      *)
(***************************************************************************)
C4_IsFeedbackTable(b) ==
    /\ b.t = "tbl"
    /\ Len(b.rows) >= 1
    /\ Len(b.rows[1]) = 3
    /\ \A c \in 1..3 : FullText(b.rows[1][c][1]) = <<FeedbackHeaders[c]>>

\* C4: with a non-empty entry list and a marker paragraph at body index i that
\* is followed by further blocks, the new table is the block next to the
\* cleared marker paragraph, before every block that followed the marker.
C4_TableAtMarker ==
    (/\ JustRan("feedback")
     /\ LoadList(event.feedback_data) # <<>>
     /\ \E loc \in Occurrences(before, "<<FEEDBACK_TABLE>>") :
            loc[1] = 1 /\ loc[4] < Len(before.body)) =>
        LET i == FirstOccurrence(before, "<<FEEDBACK_TABLE>>")[4]
        IN \E j \in {i, i + 1} : C4_IsFeedbackTable(doc.body[j])

(***************************************************************************)
(* C5                                                                      *)
(***************************************************************************)
StructuralStages ==
    {"details", "permission", "invitation", "notice", "appreciation", "gallery",
     "attendance", "feedback"}

StageMarker(stage) ==
    CASE stage = "details" -> "<<EVENT_DETAILS>>"
      [] stage = "permission" -> "<<IMAGE_PERMISSION>>"
      [] stage = "invitation" -> "<<IMAGE_INVITATION>>"
      [] stage = "notice" -> "<<IMAGE_NOTICE>>"
      [] stage = "appreciation" -> "<<IMAGE_APPRECIATION>>"
      [] stage = "gallery" -> "<<EVENT_PHOTOS>>"
      [] stage = "attendance" -> "<<ATTENDANCE_FILE>>"
      [] OTHER -> "<<FEEDBACK_TABLE>>"

OnDisk(a) == ~a.null /\ a.path \in DiskFiles

\* The stage has something to insert
HasInput(stage, ev) ==
    CASE stage = "details" -> TRUE
      [] stage = "permission" -> OnDisk(ev.permission_letter)
      [] stage = "invitation" -> OnDisk(ev.invitation_letter)
      [] stage = "notice" -> OnDisk(ev.notice_letter)
      [] stage = "appreciation" -> OnDisk(ev.appreciation_letter)
      [] stage = "gallery" -> ~ev.event_photos.null /\ ev.event_photos.list # <<>>
      [] stage = "attendance" -> OnDisk(ev.attendance_photo)
      [] OTHER -> ~ev.feedback_data.null /\ ev.feedback_data.list # <<>>

\* C5: every structural inserter searches body paragraphs, then body table
\* cells, then headers, never footers: a marker present anywhere in that
\* scope is consumed (one occurrence fewer afterwards), and a marker present
\* only in a footer leaves the tree unchanged without raising.
C5_SameSearchOrder ==
    \A stage \in StructuralStages :
        (JustRan(stage) /\ HasInput(stage, event)) =>
            LET m == StageMarker(stage)
            IN IF Searched(before, m) # {}
               THEN Cardinality(Occurrences(doc, m)) < Cardinality(Occurrences(before, m))
               ELSE doc = before /\ pc = stage

(***************************************************************************)
(* C6                                                                      *)
(***************************************************************************)
C6_StageOrder ==
    <<"loaded", "substituted", "details", "permission", "invitation", "notice",
      "appreciation", "gallery", "attendance", "feedback", "serialized">>

\* C6: the stages a call has run so far are always an initial part of the
\* fixed order load, substitution, details, permission, invitation, notice,
\* appreciation, gallery, attendance, feedback, serialize (so none is run
\* twice or out of order), the call sits right after the last stage it ran,
\* and a call that has serialized has run all eleven.
C6_StagesInOrder ==
    /\ Len(trace) <= Len(C6_StageOrder)
    /\ trace = SubSeq(C6_StageOrder, 1, Len(trace))
    /\ pc \in Range(C6_StageOrder) => LastStage = pc
    /\ pc \in {"serialized", "recorded"} => trace = C6_StageOrder

\* A call has run the whole pipeline and saved its document
C6_Witness == pc = "serialized" /\ Len(trace) = 11 /\ trace[8] = "gallery"

(***************************************************************************)
(* C7                                                                      *)
(***************************************************************************)
\* C7: running replace_placeholders again with the same mapping on the tree
\* the first run left changes nothing.
C7_SecondRunNoOp ==
    JustRan("substituted") => replace_placeholders(doc, Replacements(event)) = doc

(***************************************************************************)
(* C8                                                                      *)
(***************************************************************************)
RECURSIVE SortLocs(_)
SortLocs(S) ==
    IF S = {} THEN <<>>
    ELSE LET f == CHOOSE a \in S : \A b \in S : a = b \/ Before(a, b)
         IN <<f>> \o SortLocs(S \ {f})

\* The paragraphs holding marker, in the documented order (footers last)
OccList(d, marker) ==
    LET locs == SortLocs(Occurrences(d, marker))
    IN [n \in 1..Len(locs) |-> ParaAt(d, locs[n])]

\* C8: one call of a structural inserter consumes at most the occurrence of
\* its marker that comes first in the documented search order; every other
\* paragraph holding the marker is left exactly as it was.
C8_OnlyFirstConsumed ==
    \A stage \in StructuralStages :
        JustRan(stage) =>
            LET m == StageMarker(stage)
                was == OccList(before, m)
                now == OccList(doc, m)
            IN now = was \/ (was # <<>> /\ Searched(before, m) # {} /\ now = Tail(was))

\* An inserter ran on a template holding its marker twice in the body,
\* put its pictures in the first and left the second literal
C8_Witness ==
    /\ JustRan("gallery")
    /\ Len(OccList(before, "<<EVENT_PHOTOS>>")) = 2
    /\ OccList(doc, "<<EVENT_PHOTOS>>") = <<P(<<"again", "<<EVENT_PHOTOS>>">>)>>
    /\ \E i \in DOMAIN doc.body : doc.body[i].t = "p" /\ HasPicture(doc.body[i])

(***************************************************************************)
(* C9                                                                      *)
(***************************************************************************)
C9_Min(a, b) == IF a < b THEN a ELSE b

C9_Field(fb, key) == IF key \in DOMAIN fb THEN fb[key] ELSE <<>>

C9_CellText(cell) == FullText(cell[1])

\* The table has a header row and the first min(n, 10) entries, in input order
C9_TableOf(b, entries) ==
    /\ b.t = "tbl"
    /\ Len(b.rows) = 1 + C9_Min(Len(entries), 10)
    /\ \A r \in DOMAIN b.rows : Len(b.rows[r]) = 3
    /\ <<C9_CellText(b.rows[1][1]), C9_CellText(b.rows[1][2]), C9_CellText(b.rows[1][3])>>
         = << <<"Name">>, <<"Rating">>, <<"Comment">> >>
    /\ \A n \in 1..C9_Min(Len(entries), 10) :
          /\ C9_CellText(b.rows[n + 1][1]) = C9_Field(entries[n], "name")
          /\ C9_CellText(b.rows[n + 1][2]) = C9_Field(entries[n], "rating")
          /\ C9_CellText(b.rows[n + 1][3]) = C9_Field(entries[n], "comment")

C9_Tables(d) == {i \in DOMAIN d.body : d.body[i].t = "tbl"}

\* C9: insert_feedback_table builds at most one table; when it builds one for
\* a list of n >= 1 entries the table has 1 + min(n, 10) rows, the header
\* Name/Rating/Comment and then the first min(n, 10) entries in input order;
\* it builds one whenever n >= 1 and a body paragraph holds the marker, and
\* none for n = 0.
C9_FeedbackRows ==
    JustRan("feedback") =>
        LET entries == IF event.feedback_data.null THEN <<>> ELSE event.feedback_data.list
            built == Cardinality(C9_Tables(doc)) - Cardinality(C9_Tables(before))
            found == \E loc \in Occurrences(before, "<<FEEDBACK_TABLE>>") : loc[1] = 1
        IN /\ built = (IF Len(entries) >= 1 /\ found THEN 1 ELSE 0)
           /\ built = 0 => doc = before
           /\ built = 1 =>
                /\ Len(doc.body) = Len(before.body) + 1
                /\ \E i \in C9_Tables(doc) :
                      /\ C9_TableOf(doc.body[i], entries)
                      /\ \A j \in C9_Tables(doc) \ {i} : doc.body[j] \in Range(before.body)

\* A table was built from a list longer than the cap: eleven rows
C9_Witness ==
    /\ JustRan("feedback")
    /\ ~event.feedback_data.null
    /\ Len(event.feedback_data.list) > 10
    /\ \E i \in C9_Tables(doc) : C9_TableOf(doc.body[i], event.feedback_data.list)
                                   /\ Len(doc.body[i].rows) = 11

(***************************************************************************)
(* C10                                                                     *)
(***************************************************************************)
\* C10: no generation call writes to the template source: the file a call
\* has saved its document to is never the template file.
C10_TemplateNeverWritten ==
    pc = "serialized" => ResolveFile(OutputPath(event.title)).file # TemplateFile

(***************************************************************************)
(* C11                                                                     *)
(***************************************************************************)
C11_IsSpace(tok) == tok \in {" ", "\t"}

\* The title with every run of whitespace reduced to one space
RECURSIVE C11_Collapse(_)
C11_Collapse(tokens) ==
    IF tokens = <<>> THEN <<>>
    ELSE IF C11_IsSpace(Head(tokens))
         THEN IF Len(tokens) > 1 /\ C11_IsSpace(tokens[2])
              THEN C11_Collapse(Tail(tokens))
              ELSE <<" ">> \o C11_Collapse(Tail(tokens))
    ELSE <<Head(tokens)>> \o C11_Collapse(Tail(tokens))

C11_TitleOf(row) == events[row.event_id].title.s

\* The path names a file directly inside the output directory
C11_DirectlyInside(path) ==
    /\ Len(path) >= 3
    /\ SubSeq(path, 1, 2) = <<"generated_reports", "/">>
    /\ \A n \in 3..Len(path) : path[n] \notin {"/", ".."}

\* The whitespace half of C11: titles equal up to whitespace, equal paths
C11_WhitespaceInsensitive ==
    \A a, b \in DOMAIN reports :
        C11_Collapse(C11_TitleOf(reports[a])) = C11_Collapse(C11_TitleOf(reports[b]))
          => reports[a].file_path = reports[b].file_path

\* C11: the output path recorded for a call depends on the whitespace-collapsed
\* title alone (titles that differ only in the amount or kind of whitespace
\* get the same path) and always names a file directly inside the output
\* directory.
C11_PathFromCollapsedTitle ==
    /\ C11_WhitespaceInsensitive
    /\ \A a \in DOMAIN reports : C11_DirectlyInside(reports[a].file_path)

(***************************************************************************)
(* C12                                                                     *)
(***************************************************************************)
C12_AssetStages == {"permission", "invitation", "notice", "appreciation", "attendance"}

C12_Asset(stage, ev) ==
    CASE stage = "permission" -> ev.permission_letter
      [] stage = "invitation" -> ev.invitation_letter
      [] stage = "notice" -> ev.notice_letter
      [] stage = "appreciation" -> ev.appreciation_letter
      [] OTHER -> ev.attendance_photo

\* C12: when the asset of a single-image stage or of the attendance stage is
\* null, empty or names no existing file, the stage leaves the whole tree as
\* it was (so every marker paragraph keeps its marker text) and does not
\* raise: the call stands right after the stage, ready for the next one.
C12_MissingAssetNoOp ==
    \A stage \in C12_AssetStages :
        (JustRan(stage) /\ ~OnDisk(C12_Asset(stage, event))) =>
            /\ doc = before
            /\ pc = stage
            /\ Occurrences(doc, StageMarker(stage)) = Occurrences(before, StageMarker(stage))

\* The attendance stage ran with a path naming no file on a template whose
\* body holds the marker, and the marker paragraph still reads the marker
C12_Witness ==
    /\ JustRan("attendance")
    /\ ~event.attendance_photo.null
    /\ ~OnDisk(event.attendance_photo)
    /\ \E loc \in Occurrences(doc, "<<ATTENDANCE_FILE>>") :
          loc[1] = 1 /\ FullText(ParaAt(doc, loc)) = <<"<<ATTENDANCE_FILE>>">>
    /\ pc = "attendance"

(***************************************************************************)
(* C13                                                                     *)
(***************************************************************************)
\* The image extensions the upload layer accepts: image_exts of _save_file
C13_UploadImageExts == {".jpg", ".jpeg", ".png", ".gif"}

\* Everything the paragraph holds, run after run
C13_Items(p) == Flatten([n \in 1..Len(p.runs) |-> p.runs[n].items])

C13_BoldText(p) ==
    Flatten([n \in 1..Len(p.runs) |-> IF p.runs[n].bold THEN RunText(p.runs[n]) ELSE <<>>])

\* C13: for an existing attendance asset and a marker in a body paragraph,
\* the marker paragraph holds a page break, then the bold title line
\* "Attendance", then a picture of the asset and no fallback text when the
\* asset's extension is one the upload layer accepts as an image, and the
\* fallback text and no picture otherwise; the stage does not raise.
C13_AttendancePictureOrFallback ==
    (/\ JustRan("attendance")
     /\ OnDisk(event.attendance_photo)
     /\ \E loc \in Occurrences(before, "<<ATTENDANCE_FILE>>") : loc[1] = 1) =>
        LET i == FirstOccurrence(before, "<<ATTENDANCE_FILE>>")[4]
            path == event.attendance_photo.path
            items == C13_Items(doc.body[i])
            image == SplitExtLower(path) \in C13_UploadImageExts
        IN /\ pc = "attendance"
           /\ Len(items) >= 3
           /\ items[1] = [k |-> "pgbr", v |-> ""]
           /\ SubSeq(items, 2, 3) = <<TextItem("Attendance"), TextItem("\n")>>
           /\ C13_BoldText(doc.body[i]) = <<"Attendance", "\n">>
           /\ IF image
              THEN SubSeq(items, 4, Len(items)) = <<[k |-> "pic", v |-> path]>>
              ELSE SubSeq(items, 4, Len(items))
                     = <<TextItem("\n"), TextItem("Attendance attached as scanned document")>>

(***************************************************************************)
(* C14                                                                     *)
(***************************************************************************)
C14_Photos(ev) == IF ev.event_photos.null THEN <<>> ELSE ev.event_photos.list

\* The paths of the list whose files exist, in the order of the list
C14_Existing(photos) == SelectSeq(photos, LAMBDA path : path \in DiskFiles)

\* What the paragraph holds after its text: pictures and line breaks
C14_Appended(p) == SelectSeq(C13_Items(p), LAMBDA it : it.k = "pic" \/ it.v = "\n")

\* Every path as a picture followed by a line break
C14_PicturesWithBreaks(paths) ==
    Flatten([n \in 1..Len(paths) |-> <<[k |-> "pic", v |-> paths[n]], TextItem("\n")>>])

\* C14: for a non-empty list of paths and a gallery marker in a body
\* paragraph, the marker paragraph holds after the stage its text without the
\* marker and then exactly the pictures of the paths whose files exist, in
\* list order, each followed by a line break; nothing else changes and a
\* missing file does not make the stage raise.
C14_PhotosInOrder ==
    (/\ JustRan("gallery")
     /\ C14_Photos(event) # <<>>
     /\ \E loc \in Occurrences(before, "<<EVENT_PHOTOS>>") : loc[1] = 1) =>
        LET i == FirstOccurrence(before, "<<EVENT_PHOTOS>>")[4]
            paths == C14_Existing(C14_Photos(event))
            text == FullText(before.body[i])
            items == C13_Items(doc.body[i])
            kept == SelectSeq(text, LAMBDA tok : tok # "<<EVENT_PHOTOS>>")
        IN /\ pc = "gallery"
           /\ Len(doc.body) = Len(before.body)
           /\ \A j \in DOMAIN doc.body : j # i => doc.body[j] = before.body[j]
           /\ doc.sections = before.sections
           /\ items = [n \in 1..Len(kept) |-> TextItem(kept[n])]
                        \o C14_PicturesWithBreaks(paths)

\* The list named a missing file between two existing ones: both pictures
\* are in the paragraph, in list order
C14_Witness ==
    /\ JustRan("gallery")
    /\ C14_Photos(event) = <<"static/a.jpg", "static/gone.jpg", "static/b.png">>
    /\ \E i \in DOMAIN doc.body :
          /\ doc.body[i].t = "p"
          /\ C14_Appended(doc.body[i]) = C14_PicturesWithBreaks(<<"static/a.jpg", "static/b.png">>)
    /\ pc = "gallery"

(***************************************************************************)
(* C15                                                                     *)
(***************************************************************************)
C15_MarkerTokens ==
    {"<<EVENT_DETAILS>>", "<<IMAGE_PERMISSION>>", "<<IMAGE_INVITATION>>",
     "<<IMAGE_NOTICE>>", "<<IMAGE_APPRECIATION>>", "<<EVENT_PHOTOS>>",
     "<<ATTENDANCE_FILE>>", "<<FEEDBACK_TABLE>>"}

\* The markers of the stages that have no asset in the scenario
C15_AssetMarkers ==
    {"<<IMAGE_PERMISSION>>", "<<IMAGE_INVITATION>>", "<<IMAGE_NOTICE>>",
     "<<IMAGE_APPRECIATION>>", "<<ATTENDANCE_FILE>>"}

C15_Keys(ev) == {Replacements(ev)[k][1] : k \in DOMAIN Replacements(ev)}

C15_Template == files[TemplateFile]

\* The call has saved the document of the scenario record (title Tech Talk,
\* a date, photos a.jpg and b.png, one feedback entry A/5/Great, no letter
\* and no attendance asset), generated from a template that holds every
\* marker of the vocabulary in a body paragraph
C15_Scenario ==
    /\ pc = "serialized"
    /\ event = BaseEvent
    /\ TemplateFile \in DOMAIN files
    /\ \A m \in C15_MarkerTokens :
          \E loc \in Occurrences(C15_Template, m) : loc[1] = 1

C15_Tokens(d) == UNION {Range(FullText(ParaAt(d, loc))) : loc \in Locs(d)}

\* The two pictures in gallery order, in one paragraph, and no other picture
C15_TwoPictures ==
    /\ \E i \in DOMAIN doc.body :
          /\ doc.body[i].t = "p"
          /\ C14_Appended(doc.body[i])
               = C14_PicturesWithBreaks(<<"static/a.jpg", "static/b.png">>)
    /\ Cardinality({loc \in Locs(doc) : HasPicture(ParaAt(doc, loc))}) = 1

\* One feedback table, with the one data row A, 5, Great
C15_OneFeedbackRow ==
    /\ Cardinality(C9_Tables(doc)) = Cardinality(C9_Tables(C15_Template)) + 1
    /\ \E i \in C9_Tables(doc) :
          /\ Len(doc.body[i].rows) = 2
          /\ [c \in 1..3 |-> C9_CellText(doc.body[i].rows[1][c])]
               = << <<"Name">>, <<"Rating">>, <<"Comment">> >>
          /\ [c \in 1..3 |-> C9_CellText(doc.body[i].rows[2][c])]
               = << <<"A">>, <<"5">>, <<"Great">> >>

C15_LoneKeys(d, ev) ==
    {key \in C15_Keys(ev) :
        \A loc \in Locs(d) :
            LET text == FullText(ParaAt(d, loc))
            IN Contains(text, key) =>
                  Len(SelectSeq(text, LAMBDA tok : tok \in C15_Keys(ev))) = 1}

C16_Row == [event_id |-> event_id, file_path |-> OutputPath(event.title),
            status |-> "submitted"]

\* The file the path of the current call names holds the call's document
C16_Saved ==
    LET target == ResolveFile(OutputPath(event.title))
    IN target.ok /\ target.file \in DOMAIN files /\ files[target.file] = doc

\* C16: the reports table changes only by a call that has saved its document
\* appending its one row (event_id, output path, "submitted"); a call that
\* has saved its document leaves that position only by appending the row; a
\* call that raised, before or during the save, appends nothing.
C16_RowOnlyAfterSave ==
    [][/\ reports' # reports =>
              /\ pc = "serialized"
              /\ trace[Len(trace)] = "serialized"
              /\ C16_Saved
              /\ reports' = Append(reports, C16_Row)
       /\ (pc = "serialized" /\ pc' # pc) => Len(reports') = Len(reports) + 1
       /\ (pc = "raised" \/ pc' = "raised") => reports' = reports]_vars

\* The first request ended without a save and left no row; the second call
\* saved its document and has just appended its row, the only one
C16_Witness ==
    /\ pc = "recorded"
    /\ ncalls = 2
    /\ reports = <<C16_Row>>
    /\ C16_Saved
    /\ Cardinality(DOMAIN files) = 2

(***************************************************************************)
(* C17                                                                     *)
(***************************************************************************)
\* C17: while the template file is missing, a call gets no further than the
\* load: the load is the only statement it runs, it ends in the raised
\* position, no stage touches a document, no file is written and no report
\* row is appended.
C17_LoadFailureAborts ==
    TemplateFile \notin DOMAIN files =>
        /\ pc \in {"idle", "fetched", "raised"}
        /\ trace \in {<<>>, <<"loaded">>}
        /\ pc = "raised" => trace = <<"loaded">>
        /\ doc = EmptyDoc /\ before = EmptyDoc
        /\ DOMAIN files = {}
        /\ reports = <<>>

\* A second call in a row has failed at the load of the missing template
C17_Witness ==
    /\ TemplateFile \notin DOMAIN files
    /\ pc = "raised"
    /\ trace = <<"loaded">>
    /\ ncalls = 2
    /\ reports = <<>>

(***************************************************************************)
(* C18                                                                     *)
(***************************************************************************)
\* What the template's paragraphs holding marker read once the placeholders
\* of the record are substituted
C18_TemplateMarkerTexts(marker, ev) ==
    LET template == files[TemplateFile]
    IN {C2_Expected(FullText(ParaAt(template, loc)), Replacements(ev)) :
            loc \in Occurrences(template, marker)}

\* C18: the paragraph a structural inserter modifies is one of the template's
\* own marker paragraphs, for every record, also one whose scalar values hold
\* the text of a marker: it is never a paragraph that got its marker text
\* from placeholder substitution or from the details block.
C18_OnlyTemplateMarkersConsumed ==
    \A stage \in StructuralStages :
        (JustRan(stage) /\ doc # before) =>
            LET m == StageMarker(stage)
                was == OccList(before, m)
            IN /\ was # <<>>
               /\ FullText(was[1]) \in C18_TemplateMarkerTexts(m, event)

(***************************************************************************)
(* C19                                                                     *)
(***************************************************************************)
\* C19: calls for two distinct events never write the same output path: a
\* call that has just saved its document has not written the file that the
\* report row of another event names, and no two rows of distinct events
\* name the same file.
C19_DistinctEventsDistinctPaths ==
    /\ pc = "serialized" =>
          \A a \in DOMAIN reports :
              reports[a].event_id # event_id
                => reports[a].file_path # OutputPath(event.title)
    /\ \A a, b \in DOMAIN reports :
          reports[a].event_id # reports[b].event_id
            => reports[a].file_path # reports[b].file_path

====
